---- MODULE Spec2Model ----
(***************************************************************************)
(* alphagenome_tools.helpers: the usage monitor (APIMonitor and the        *)
(* process-wide instance behind monitor_api_quota) and the two batch       *)
(* runners (batch_predict_variants, batch_predict_sequences), with the     *)
(* CSV loader load_intervals_from_csv that feeds the second and a second   *)
(* process of the program that shares the usage log.                       *)
(*                                                                         *)
(* Text is a sequence of one-character strings, so that writing a log line *)
(* and reading it back are computed the way the Python code computes them. *)
(***************************************************************************)
EXTENDS Integers, Sequences, FiniteSets, TLC

\* Python's None
None == [None |-> TRUE]

(***************************************************************************)
(* Bounds of the model.                                                    *)
(***************************************************************************)
\* direct increment() calls made by the process in one behaviour
MaxIncrements == 2
\* APIMonitor objects constructed by the process in one behaviour
MaxMonitors == 2
\* longest request list handed to a batch runner
MaxBatch == 2
\* increment() calls made by a second process that shares the log
MaxPeerIncrements == 1

(***************************************************************************)
(* Program constants.                                                      *)
(***************************************************************************)
\* limit: int = 1000000
DefaultLimit == 1000000
\* warning_threshold: float = 0.9, kept as the fraction 9/10
ThresholdNum == 9
ThresholdDen == 10
\* window_size = 100000
window_size == 100000

\* a limit a caller passes to monitor_api_quota(limit=...) instead of the default
SmallLimit == 1
Limits == {SmallLimit, DefaultLimit}

\* the count arguments passed to increment(count)
Counts == {1, 2}

(***************************************************************************)
(* Python text operations used by the monitor.                             *)
(***************************************************************************)
Digits == <<"0", "1", "2", "3", "4", "5", "6", "7", "8", "9">>
Whitespace == {" ", "\n", "\t", "\r"}

\* 'Total calls' (the marker tested with `in`) and 'Total calls:' (the separator)
TotalCalls == <<"T", "o", "t", "a", "l", " ", "c", "a", "l", "l", "s">>
TotalCallsColon == TotalCalls \o <<":">>

\* datetime.now().isoformat(): the clock is not modelled, one instant stands for all
isoformat == <<"2", "0", "2", "6", "-", "0", "1", "-", "0", "1", "T",
               "0", "0", ":", "0", "0", ":", "0", "0">>

\* a[i:] for a 1-based i
Drop(s, i) == SubSeq(s, i, Len(s))

\* s.find(sub): the first 1-based index where sub occurs in s, 0 when it does not
Find(sub, s) ==
  LET hits == {i \in 1..(Len(s) - Len(sub) + 1) : SubSeq(s, i, i + Len(sub) - 1) = sub}
  IN IF hits = {} THEN 0 ELSE CHOOSE i \in hits : \A j \in hits : i <= j

\* sub in s
Contains(sub, s) == Find(sub, s) # 0

\* s.split(sep): the pieces between the non-overlapping occurrences of sep
RECURSIVE split(_, _)
split(s, sep) ==
  LET i == Find(sep, s)
  IN IF i = 0 THEN <<s>>
     ELSE <<SubSeq(s, 1, i - 1)>> \o split(Drop(s, i + Len(sep)), sep)

\* s.strip()
RECURSIVE lstrip(_)
lstrip(s) == IF s # <<>> /\ Head(s) \in Whitespace THEN lstrip(Tail(s)) ELSE s
RECURSIVE rstrip(_)
rstrip(s) ==
  IF s # <<>> /\ s[Len(s)] \in Whitespace THEN rstrip(SubSeq(s, 1, Len(s) - 1)) ELSE s
strip(s) == rstrip(lstrip(s))

DigitValue(c) == CHOOSE d \in 0..9 : Digits[d + 1] = c
IsDigit(c) == \E d \in 0..9 : Digits[d + 1] = c

RECURSIVE DigitsValue(_)
DigitsValue(s) ==
  IF s = <<>> THEN 0 ELSE 10 * DigitsValue(SubSeq(s, 1, Len(s) - 1)) + DigitValue(s[Len(s)])

\* int(s): surrounding whitespace and one sign are accepted, then decimal digits;
\* anything else is a ValueError
int(s) ==
  LET t == strip(s)
      signed == t # <<>> /\ Head(t) \in {"+", "-"}
      body == IF signed THEN Tail(t) ELSE t
      ok == body # <<>> /\ \A i \in 1..Len(body) : IsDigit(body[i])
  IN IF ~ok THEN [ok |-> FALSE, value |-> 0]
     ELSE [ok |-> TRUE,
           value |-> IF signed /\ Head(t) = "-" THEN 0 - DigitsValue(body)
                     ELSE DigitsValue(body)]

\* str(n) / f"{n}" of an integer
RECURSIVE NatStr(_)
NatStr(n) == IF n < 10 THEN <<Digits[n + 1]>> ELSE NatStr(n \div 10) \o <<Digits[(n % 10) + 1]>>
str(n) == IF n < 0 THEN <<"-">> \o NatStr(0 - n) ELSE NatStr(n)

\* f.readlines(): the text cut after every newline, the terminators kept. A line
\* starts at the first character and after every newline that is not the last
\* character; it ends with the next newline, or with the text.
readlines(text) ==
  LET newlines == {i \in 1..Len(text) : text[i] = "\n"}
      starts == {i \in 1..Len(text) : i = 1 \/ (i - 1) \in newlines}
      start(k) == CHOOSE i \in starts : Cardinality({j \in starts : j < i}) = k - 1
      end(i) == IF \E j \in newlines : j >= i
                THEN CHOOSE j \in newlines : j >= i /\ \A l \in newlines : l >= i => j <= l
                ELSE Len(text)
  IN [k \in 1..Cardinality(starts) |-> SubSeq(text, start(k), end(start(k)))]

\* f"{datetime.now().isoformat()} - Total calls: {self.calls}\n"
UsageLine(calls) ==
  isoformat \o <<" ", "-", " ">> \o TotalCallsColon \o <<" ">> \o str(calls) \o <<"\n">>

(***************************************************************************)
(* The usage log, ~/work/api_usage.log: whether the file exists, and its   *)
(* text.                                                                   *)
(***************************************************************************)
NoFile == [exists |-> FALSE, text |-> <<>>]
File(text) == [exists |-> TRUE, text |-> text]

BlankLine == <<"\n">>
ForeignLine == <<"#", " ", "n", "o", "t", "e", "\n">>
\* the marker without its colon: 'Total calls' is in the line, 'Total calls:' is not
MarkerNoColon == TotalCalls \o <<" ", "5", "\n">>
\* the marker followed by something int() rejects
BadTotal == isoformat \o <<" ", "-", " ">> \o TotalCallsColon \o <<" ", "n", "/", "a", "\n">>

\* a usage line that was not finished with a newline
Unterminated == isoformat \o <<" ", "-", " ">> \o TotalCallsColon \o <<" ", "2">>

\* the log contents a process may find when it starts
InitialLogs ==
  { NoFile,
    File(<<>>),
    File(UsageLine(2)),
    File(UsageLine(1) \o UsageLine(899998)),
    File(UsageLine(2) \o BlankLine),
    File(UsageLine(3) \o ForeignLine),
    File(ForeignLine),
    File(MarkerNoColon),
    File(BadTotal),
    File(Unterminated) }

(***************************************************************************)
(* class APIMonitor                                                        *)
(***************************************************************************)
\* _load_usage that catches ValueError only: the IndexError of an empty file or of
\* a line without 'Total calls:', and the OSError of a failed read, leave the method
load_usage_narrow(file, readOk) ==
  IF ~file.exists THEN [calls |-> 0, warned |-> FALSE, raised |-> FALSE]
  ELSE IF ~readOk THEN [calls |-> 0, warned |-> FALSE, raised |-> TRUE]
  ELSE LET lines == readlines(file.text)
       IN IF lines = <<>> THEN [calls |-> 0, warned |-> FALSE, raised |-> TRUE]
          ELSE LET last_line == lines[Len(lines)]
               IN IF ~Contains(TotalCalls, last_line)
                  THEN [calls |-> 0, warned |-> FALSE, raised |-> FALSE]
                  ELSE LET parts == split(last_line, TotalCallsColon)
                       IN IF Len(parts) < 2
                          THEN [calls |-> 0, warned |-> FALSE, raised |-> TRUE]
                          ELSE LET n == int(strip(parts[2]))
                               IN IF n.ok
                                  THEN [calls |-> n.value, warned |-> FALSE, raised |-> FALSE]
                                  ELSE [calls |-> 0, warned |-> TRUE, raised |-> FALSE]

\* _load_usage: the count restored from the log, whether the warning
\* "Could not load previous usage" was logged (an exception was swallowed), and
\* whether an exception leaves the method.
\* readOk = FALSE: open() or readlines() raises an OSError.
load_usage(file, readOk) ==
  IF ~file.exists THEN [calls |-> 0, warned |-> FALSE, raised |-> FALSE]
  ELSE IF ~readOk THEN [calls |-> 0, warned |-> TRUE, raised |-> FALSE]
  ELSE LET lines == readlines(file.text)
       IN IF lines = <<>>
          THEN [calls |-> 0, warned |-> TRUE, raised |-> FALSE]             \* IndexError
          ELSE LET last_line == lines[Len(lines)]
               IN IF ~Contains(TotalCalls, last_line)
                  THEN [calls |-> 0, warned |-> FALSE, raised |-> FALSE]
                  ELSE LET parts == split(last_line, TotalCallsColon)
                       IN IF Len(parts) < 2
                          THEN [calls |-> 0, warned |-> TRUE, raised |-> FALSE]  \* IndexError
                          ELSE LET n == int(strip(parts[2]))
                               IN IF n.ok
                                  THEN [calls |-> n.value, warned |-> FALSE, raised |-> FALSE]
                                  ELSE [calls |-> 0, warned |-> TRUE, raised |-> FALSE]  \* ValueError

\* __init__
APIMonitor(limit, file, readOk) ==
  [limit |-> limit,
   warning_threshold |-> [num |-> ThresholdNum, den |-> ThresholdDen],
   calls |-> load_usage(file, readOk).calls]

\* _log_usage without its try/except: the OSError of a failed write leaves the method
log_usage_unguarded(file, calls, writeOk) ==
  IF writeOk
  THEN [file |-> File((IF file.exists THEN file.text ELSE <<>>) \o UsageLine(calls)),
        raised |-> FALSE]
  ELSE [file |-> file, raised |-> TRUE]

\* _log_usage opening the file with 'w': the line written replaces the log
log_usage_rewrite(file, calls, writeOk) ==
  IF writeOk
  THEN [file |-> File(UsageLine(calls)), raised |-> FALSE]
  ELSE [file |-> file, raised |-> FALSE]

\* _log_usage: the file afterwards, and whether an exception leaves the method.
\* writeOk = FALSE: mkdir() or open() or write() raises an OSError, which is caught.
log_usage(file, calls, writeOk) ==
  IF writeOk
  THEN [file |-> File((IF file.exists THEN file.text ELSE <<>>) \o UsageLine(calls)),
        raised |-> FALSE]
  ELSE [file |-> file, raised |-> FALSE]

\* the comparison written with > instead of >=
AtThreshold_strict(calls, limit, threshold) == calls * threshold.den > threshold.num * limit

\* usage_fraction >= self.warning_threshold, with usage_fraction = calls / limit
AtThreshold(calls, limit, threshold) == calls * threshold.den >= threshold.num * limit

\* increment that first takes the total of the log's last line when it is larger
increment_synced(m, count, file, writeOk) ==
  LET logged_total == load_usage(file, TRUE).calls
      calls == (IF logged_total > m.calls THEN logged_total ELSE m.calls) + count
      logged == log_usage(file, calls, writeOk)
  IN [monitor |-> [m EXCEPT !.calls = calls],
      file |-> logged.file,
      raised |-> logged.raised,
      warned |-> ~logged.raised /\ AtThreshold(calls, m.limit, m.warning_threshold)]

\* increment that takes the count away
increment_down(m, count, file, writeOk) ==
  LET calls == m.calls - count
      logged == log_usage(file, calls, writeOk)
  IN [monitor |-> [m EXCEPT !.calls = calls],
      file |-> logged.file,
      raised |-> logged.raised,
      warned |-> ~logged.raised /\ AtThreshold(calls, m.limit, m.warning_threshold)]

\* increment: the monitor and the file afterwards, whether the warning was logged,
\* whether an exception leaves the method
increment(m, count, file, writeOk) ==
  LET calls == m.calls + count
      logged == log_usage(file, calls, writeOk)
  IN [monitor |-> [m EXCEPT !.calls = calls],
      file |-> logged.file,
      raised |-> logged.raised,
      warned |-> ~logged.raised /\ AtThreshold(calls, m.limit, m.warning_threshold)]

\* get_usage with remaining cut off at zero
get_usage_clamped(m) ==
  [calls |-> m.calls, limit |-> m.limit,
   remaining |-> IF m.limit - m.calls < 0 THEN 0 ELSE m.limit - m.calls]

\* get_usage
get_usage(m) == [calls |-> m.calls, limit |-> m.limit, remaining |-> m.limit - m.calls]

(***************************************************************************)
(* The requests and the external model.                                    *)
(***************************************************************************)
\* genome.Variant values
Variants ==
  { [chromosome |-> "chr1", position |-> 100, reference_bases |-> "A", alternate_bases |-> "C"],
    [chromosome |-> "chr2", position |-> 60000, reference_bases |-> "G", alternate_bases |-> "T"] }

\* genome.Interval values handed to batch_predict_sequences
Intervals ==
  { [chromosome |-> "chr1", start |-> 0, end |-> 2048],
    [chromosome |-> "chr2", start |-> 1000, end |-> 5000] }

\* the values a caller passes as batch_predict_variants(interval=...)
IntervalArgs == {None, [chromosome |-> "chr1", start |-> 0, end |-> 131072]}

\* what one call of model.predict_variant can do: return outputs that have both
\* .reference and .alternate, return outputs that lack one, or raise
VariantOutcomes ==
  { [raises |-> FALSE, reference_and_alternate |-> TRUE],
    [raises |-> FALSE, reference_and_alternate |-> FALSE],
    [raises |-> TRUE, message |-> "quota exceeded"],
    [raises |-> TRUE, message |-> ""] }

\* what one call of model.predict_sequence can do: return, or raise
SequenceOutcomes ==
  { [raises |-> FALSE],
    [raises |-> TRUE, message |-> "quota exceeded"],
    [raises |-> TRUE, message |-> ""] }

\* the request lists a caller passes
RECURSIVE Lists(_, _)
Lists(S, n) ==
  IF n = 0 THEN {<<>>}
  ELSE Lists(S, n - 1) \cup {Append(l, x) : l \in {k \in Lists(S, n - 1) : Len(k) = n - 1}, x \in S}

max(a, b) == IF a >= b THEN a ELSE b

\* genome.Interval is defined outside this repository. The repository's own calls
\* (load_intervals_from_csv, batch_predict_sequences) use the fields chromosome,
\* start and end; batch_predict_variants builds its window with the keyword
\* position. Whether the constructor takes that keyword is not decided here: the
\* variable accepts_position holds either answer, fixed when a batch starts.
\* str(e) of the TypeError a constructor raises for a keyword it does not have
UnexpectedKeyword == "__init__() got an unexpected keyword argument 'position'"
\* str(e) of the OSError a failed log write raises
OSErrorText == "[Errno 13] Permission denied"

(***************************************************************************)
(* State.                                                                  *)
(***************************************************************************)
VARIABLES
  logFile,        \* the usage log on disk
  api_monitor,    \* the module global _api_monitor: None or an APIMonitor
  loadedFrom,     \* history: the log the current monitor was built from, and the count restored
  trace,          \* history: the increments made on the current monitor
  nMonitors,      \* APIMonitor objects constructed so far
  nIncrements,    \* direct increment() calls so far (bounded by MaxIncrements)
  lastOp,         \* history: the last call and what it returned
  pc,             \* "idle", "loop" (inside a batch runner's for loop), "returned", "raised"
  fn,             \* the batch runner called: its name, or "none"
  requests,       \* its first argument: the list of variants or of intervals
  intervalArg,    \* history: batch_predict_variants' interval argument as passed
  interval,       \* batch_predict_variants' local variable interval
  monitor,        \* the monitor argument
  accepts_position, \* whether genome.Interval's constructor takes a keyword position
  cursor,         \* the requests the for loop has consumed
  results,        \* the local list results
  issued,         \* history: the calls made on the external model, in order, each with
                  \* the number of rows recorded when it was made
  incrementedFor, \* history: the request indices after which increment() was called
  peer_monitor,   \* the global _api_monitor of a second process using the same log
  peerLoadedFrom, \* history: the log that process's monitor was built from
  peerTrace       \* history: the increments made in that process

monitorVars == <<logFile, api_monitor, loadedFrom, trace, nMonitors>>
batchVars == <<pc, fn, requests, intervalArg, interval, monitor, accepts_position,
               cursor, results, issued, incrementedFor>>
peerVars == <<peer_monitor, peerLoadedFrom, peerTrace>>
vars == <<logFile, api_monitor, loadedFrom, trace, nMonitors, nIncrements, lastOp,
          pc, fn, requests, intervalArg, interval, monitor, accepts_position,
          cursor, results, issued, incrementedFor,
          peer_monitor, peerLoadedFrom, peerTrace>>

InitProcess ==
  /\ api_monitor = None
  /\ loadedFrom = None
  /\ trace = <<>>
  /\ nMonitors = 0
  /\ nIncrements = 0
  /\ lastOp = [op |-> "start"]
  /\ pc = "idle"
  /\ fn = "none"
  /\ requests = <<>>
  /\ intervalArg = None
  /\ interval = None
  /\ monitor = FALSE
  /\ accepts_position = FALSE
  /\ cursor = 0
  /\ results = <<>>
  /\ issued = <<>>
  /\ incrementedFor = <<>>
  /\ peer_monitor = None
  /\ peerLoadedFrom = None
  /\ peerTrace = <<>>

Init == logFile \in InitialLogs /\ InitProcess

\* the outcomes reading the log can have: a file that is not there is never opened
ReadOutcomes == IF logFile.exists THEN BOOLEAN ELSE {TRUE}

\* monitor_api_quota that builds a monitor on every call
monitor_api_quota_rebuilds(limit, reset, readOk) == APIMonitor(limit, logFile, readOk)

\* monitor_api_quota(limit, reset): the global afterwards
monitor_api_quota(limit, reset, readOk) ==
  IF api_monitor = None \/ reset THEN APIMonitor(limit, logFile, readOk) ELSE api_monitor

\* a call of monitor_api_quota(limit=limit, reset=reset) by the user. An exception
\* that leaves APIMonitor.__init__ leaves the call too, before the global is assigned.
MonitorApiQuota(limit, reset, readOk) ==
  LET created == api_monitor = None \/ reset
  IN /\ pc = "idle"
     /\ created => nMonitors < MaxMonitors
     /\ \E failed \in {created /\ load_usage(logFile, readOk).raised} :
          /\ api_monitor' = IF failed THEN api_monitor
                            ELSE monitor_api_quota(limit, reset, readOk)
          /\ loadedFrom' = IF created /\ ~failed
                           THEN [file |-> logFile, readOk |-> readOk,
                                 calls |-> api_monitor'.calls]
                           ELSE loadedFrom
          /\ trace' = IF created /\ ~failed THEN <<>> ELSE trace
          /\ lastOp' = [op |-> "monitor_api_quota", reset |-> reset, raised |-> failed]
     /\ nMonitors' = IF created THEN nMonitors + 1 ELSE nMonitors
     /\ UNCHANGED <<logFile, nIncrements>>
     /\ UNCHANGED batchVars
  /\ UNCHANGED peerVars

\* a call of increment(count) on the process-wide monitor by the user
Increment(count, writeOk) ==
  /\ pc = "idle"
  /\ api_monitor # None
  /\ nIncrements < MaxIncrements
  /\ LET r == increment(api_monitor, count, logFile, writeOk)
     IN /\ api_monitor' = r.monitor
        /\ logFile' = r.file
        /\ trace' = Append(trace, [count |-> count, calls |-> r.monitor.calls,
                                   warned |-> r.warned, wrote |-> writeOk,
                                   raised |-> r.raised])
        /\ lastOp' = [op |-> "increment"]
  /\ nIncrements' = nIncrements + 1
  /\ UNCHANGED <<loadedFrom, nMonitors>>
  /\ UNCHANGED batchVars
  /\ UNCHANGED peerVars

\* a call of get_usage() on the process-wide monitor by the user
GetUsage ==
  /\ pc = "idle"
  /\ api_monitor # None
  /\ lastOp' = [op |-> "get_usage", value |-> get_usage(api_monitor)]
  /\ UNCHANGED <<logFile, api_monitor, loadedFrom, trace, nMonitors, nIncrements>>
  /\ UNCHANGED batchVars
  /\ UNCHANGED peerVars

(***************************************************************************)
(* batch_predict_variants                                                  *)
(***************************************************************************)
\* the window built when no interval is at hand:
\* genome.Interval(chromosome=..., position=max(0, position - window_size // 2),
\*                 end=position + window_size // 2)
default_window(variant) ==
  [chromosome |-> variant.chromosome,
   position |-> max(0, variant.position - window_size \div 2),
   end |-> variant.position + window_size \div 2]

\* variant_result with the two allele columns exchanged
variant_result_swapped(variant, outputs) ==
  [chromosome |-> variant.chromosome, position |-> variant.position,
   reference |-> variant.alternate_bases, alternate |-> variant.reference_bases,
   success |-> TRUE, has_outputs |-> outputs.reference_and_alternate]

\* the row stored after a prediction that returned
variant_result(variant, outputs) ==
  [chromosome |-> variant.chromosome, position |-> variant.position,
   reference |-> variant.reference_bases, alternate |-> variant.alternate_bases,
   success |-> TRUE, has_outputs |-> outputs.reference_and_alternate]

\* variant_error without the error column
variant_error_silent(variant, e) ==
  [chromosome |-> variant.chromosome, position |-> variant.position,
   reference |-> variant.reference_bases, alternate |-> variant.alternate_bases,
   success |-> FALSE]

\* the row stored by the except clause, error = str(e)
variant_error(variant, e) ==
  [chromosome |-> variant.chromosome, position |-> variant.position,
   reference |-> variant.reference_bases, alternate |-> variant.alternate_bases,
   success |-> FALSE, error |-> e]

\* monitor_api_quota().increment() as the batch runners call it: the global is
\* created with the default limit when there is none
quota_increment(readOk, writeOk) ==
  increment(monitor_api_quota(DefaultLimit, FALSE, readOk), 1, logFile, writeOk)

\* the effect of that call on the monitor, the log and their histories
UpdateApiMonitor(r, readOk, writeOk) ==
  LET created == api_monitor = None
  IN /\ api_monitor' = r.monitor
     /\ logFile' = r.file
     /\ loadedFrom' = IF created
                      THEN [file |-> logFile, readOk |-> readOk,
                            calls |-> monitor_api_quota(DefaultLimit, FALSE, readOk).calls]
                      ELSE loadedFrom
     /\ trace' = Append(IF created THEN <<>> ELSE trace,
                        [count |-> 1, calls |-> r.monitor.calls, warned |-> r.warned,
                         wrote |-> writeOk, raised |-> r.raised])
     /\ nMonitors' = IF created THEN nMonitors + 1 ELSE nMonitors
     /\ incrementedFor' = Append(incrementedFor, cursor + 1)

\* the call batch_predict_variants(variants, model, interval=arg, monitor=flag);
\* everything before the for loop
BatchPredictVariants(variants, arg, flag, accepts) ==
  /\ pc = "idle"
  /\ fn = "none"
  /\ pc' = "loop"
  /\ fn' = "batch_predict_variants"
  /\ requests' = variants
  /\ intervalArg' = arg
  /\ interval' = arg
  /\ monitor' = flag
  /\ accepts_position' = accepts
  /\ cursor' = 0
  /\ results' = <<>>
  /\ lastOp' = [op |-> "batch_predict_variants"]
  /\ UNCHANGED <<issued, incrementedFor, nIncrements>>
  /\ UNCHANGED monitorVars
  /\ UNCHANGED peerVars

\* one pass of the for loop of batch_predict_variants: the try block and its except
\* clause. outcome is what model.predict_variant does if it is called.
VariantIteration(outcome, readOk, writeOk) ==
  /\ pc = "loop"
  /\ fn = "batch_predict_variants"
  /\ cursor < Len(requests)
  /\ LET variant == requests[cursor + 1]
     IN IF interval = None /\ ~accepts_position
        THEN \* genome.Interval(...) raises TypeError: no call, the except clause runs
             /\ results' = Append(results, variant_error(variant, UnexpectedKeyword))
             /\ UNCHANGED <<interval, issued, incrementedFor>>
             /\ UNCHANGED monitorVars
        ELSE LET window == IF interval = None THEN default_window(variant) ELSE interval
             IN /\ interval' = window
                /\ issued' = Append(issued, [index |-> cursor + 1, interval |-> window,
                                             request |-> variant, outcome |-> outcome,
                                             rows |-> Len(results)])
                /\ IF outcome.raises
                   THEN /\ results' = Append(results, variant_error(variant, outcome.message))
                        /\ UNCHANGED incrementedFor
                        /\ UNCHANGED monitorVars
                   ELSE LET stored == Append(results, variant_result(variant, outcome))
                        IN IF ~monitor
                           THEN /\ results' = stored
                                /\ UNCHANGED incrementedFor
                                /\ UNCHANGED monitorVars
                           ELSE LET r == quota_increment(readOk, writeOk)
                                IN /\ UpdateApiMonitor(r, readOk, writeOk)
                                   /\ results' =
                                        IF r.raised
                                        THEN Append(stored, variant_error(variant, OSErrorText))
                                        ELSE stored
  /\ cursor' = cursor + 1
  /\ UNCHANGED <<pc, fn, requests, intervalArg, monitor, accepts_position, nIncrements, lastOp>>
  /\ UNCHANGED peerVars

\* after the loop: df = pd.DataFrame(results), the summary line, return df.
\* df['success'] is a KeyError when results is empty: the table has no columns.
BatchReturn ==
  /\ pc = "loop"
  /\ cursor = Len(requests)
  /\ pc' = IF results = <<>> THEN "raised" ELSE "returned"
  /\ UNCHANGED <<fn, requests, intervalArg, interval, monitor, accepts_position, cursor,
                 results, issued, incrementedFor, nIncrements, lastOp>>
  /\ UNCHANGED monitorVars
  /\ UNCHANGED peerVars

VariantsReturn == fn = "batch_predict_variants" /\ BatchReturn

(***************************************************************************)
(* batch_predict_sequences                                                 *)
(***************************************************************************)
sequence_result(iv) ==
  [chromosome |-> iv.chromosome, start |-> iv.start, end |-> iv.end,
   length |-> iv.end - iv.start, success |-> TRUE]

sequence_error(iv, e) ==
  [chromosome |-> iv.chromosome, start |-> iv.start, end |-> iv.end,
   length |-> iv.end - iv.start, success |-> FALSE, error |-> e]

\* the call batch_predict_sequences(intervals, model, monitor=flag)
BatchPredictSequences(intervals, flag) ==
  /\ pc = "idle"
  /\ fn = "none"
  /\ pc' = "loop"
  /\ fn' = "batch_predict_sequences"
  /\ requests' = intervals
  /\ monitor' = flag
  /\ cursor' = 0
  /\ results' = <<>>
  /\ lastOp' = [op |-> "batch_predict_sequences"]
  /\ UNCHANGED <<intervalArg, interval, accepts_position, issued, incrementedFor, nIncrements>>
  /\ UNCHANGED monitorVars
  /\ UNCHANGED peerVars

\* one pass of the for loop of batch_predict_sequences
SequenceIteration(outcome, readOk, writeOk) ==
  /\ pc = "loop"
  /\ fn = "batch_predict_sequences"
  /\ cursor < Len(requests)
  /\ LET iv == requests[cursor + 1]
     IN /\ issued' = Append(issued, [index |-> cursor + 1, interval |-> iv,
                                     request |-> iv, outcome |-> outcome,
                                     rows |-> Len(results)])
        /\ IF outcome.raises
           THEN /\ results' = Append(results, sequence_error(iv, outcome.message))
                /\ UNCHANGED incrementedFor
                /\ UNCHANGED monitorVars
           ELSE LET stored == Append(results, sequence_result(iv))
                IN IF ~monitor
                   THEN /\ results' = stored
                        /\ UNCHANGED incrementedFor
                        /\ UNCHANGED monitorVars
                   ELSE LET r == quota_increment(readOk, writeOk)
                        IN /\ UpdateApiMonitor(r, readOk, writeOk)
                           /\ results' =
                                IF r.raised
                                THEN Append(stored, sequence_error(iv, OSErrorText))
                                ELSE stored
  /\ cursor' = cursor + 1
  /\ UNCHANGED <<pc, fn, requests, intervalArg, interval, monitor, accepts_position,
                 nIncrements, lastOp>>
  /\ UNCHANGED peerVars

SequencesReturn == fn = "batch_predict_sequences" /\ BatchReturn

(***************************************************************************)
(* Specifications.                                                         *)
(***************************************************************************)
Next ==
  \/ \E limit \in Limits, reset \in BOOLEAN, readOk \in ReadOutcomes :
       MonitorApiQuota(limit, reset, readOk)
  \/ \E count \in Counts, writeOk \in BOOLEAN : Increment(count, writeOk)
  \/ GetUsage

\* one process using the monitor directly
Spec == Init /\ [][Next]_vars

\* the logs a process that runs a batch may find when it starts
BatchLogs == {NoFile, File(UsageLine(2))}

InitBatch == logFile \in BatchLogs /\ InitProcess

\* the user fetches the process-wide monitor before running a batch
FetchMonitor(limit, readOk) == MonitorApiQuota(limit, FALSE, readOk)

NextBatch ==
  \/ \E limit \in Limits, readOk \in ReadOutcomes : FetchMonitor(limit, readOk)
  \/ \E variants \in Lists(Variants, MaxBatch), arg \in IntervalArgs,
        flag \in BOOLEAN, accepts \in BOOLEAN :
       BatchPredictVariants(variants, arg, flag, accepts)
  \/ \E outcome \in VariantOutcomes, readOk \in ReadOutcomes, writeOk \in BOOLEAN :
       VariantIteration(outcome, readOk, writeOk)
  \/ VariantsReturn
  \/ \E intervals \in Lists(Intervals, MaxBatch), flag \in BOOLEAN :
       BatchPredictSequences(intervals, flag)
  \/ \E outcome \in SequenceOutcomes, readOk \in ReadOutcomes, writeOk \in BOOLEAN :
       SequenceIteration(outcome, readOk, writeOk)
  \/ SequencesReturn

\* one process running one batch
SpecBatch == InitBatch /\ [][NextBatch]_vars

(***************************************************************************)
(* load_intervals_from_csv                                                 *)
(***************************************************************************)
\* rows as csv.DictReader yields them: every field is text
CsvRows ==
  { [chromosome |-> "chr1", start |-> <<"1", "0">>, end |-> <<"2", "0">>],
    [chromosome |-> "chr1", start |-> <<"2", "0">>, end |-> <<"2", "0">>],
    [chromosome |-> "chr2", start |-> <<"3", "0">>, end |-> <<"1", "0">>],
    [chromosome |-> "chr2", start |-> <<"x">>, end |-> <<"5">>] }

\* genome.Interval is defined outside this repository, and so is whatever its
\* constructor checks: nothing, that end is not before start, or that end is
\* after start
IntervalChecks == {"none", "end >= start", "end > start"}

\* genome.Interval(chromosome=..., start=..., end=...) under one of those checks
Interval(chromosome, start, end, check) ==
  IF \/ (check = "end >= start" /\ end < start)
     \/ (check = "end > start" /\ end <= start)
  THEN [raised |-> TRUE, value |-> None]
  ELSE [raised |-> FALSE, value |-> [chromosome |-> chromosome, start |-> start, end |-> end]]

\* load_intervals_from_csv over the rows of the file: the list returned, or
\* raised when int() or the constructor raises on a row (nothing is caught)
RECURSIVE load_intervals_from_csv(_, _)
load_intervals_from_csv(rows, check) ==
  IF rows = <<>> THEN [raised |-> FALSE, value |-> <<>>]
  ELSE LET before == load_intervals_from_csv(SubSeq(rows, 1, Len(rows) - 1), check)
           row == rows[Len(rows)]
           start == int(row.start)
           end == int(row.end)
           made == Interval(row.chromosome, start.value, end.value, check)
       IN IF before.raised \/ ~start.ok \/ ~end.ok \/ made.raised
          THEN [raised |-> TRUE, value |-> <<>>]
          ELSE [raised |-> FALSE, value |-> Append(before.value, made.value)]

\* a call of load_intervals_from_csv(filepath) on a file with these rows
LoadIntervalsFromCsv(rows, check) ==
  /\ pc = "idle"
  /\ fn = "none"
  /\ LET loaded == load_intervals_from_csv(rows, check)
     IN lastOp' = [op |-> "load_intervals_from_csv", rows |-> rows,
                   raised |-> loaded.raised, value |-> loaded.value]
  /\ UNCHANGED nIncrements
  /\ UNCHANGED monitorVars
  /\ UNCHANGED batchVars
  /\ UNCHANGED peerVars

\* batch_predict_sequences called with the list load_intervals_from_csv returned
BatchPredictLoaded(flag) ==
  /\ lastOp.op = "load_intervals_from_csv"
  /\ ~lastOp.raised
  /\ BatchPredictSequences(lastOp.value, flag)

NextCsv ==
  \/ \E rows \in Lists(CsvRows, MaxBatch), check \in IntervalChecks :
       LoadIntervalsFromCsv(rows, check)
  \/ \E flag \in BOOLEAN : BatchPredictLoaded(flag)
  \/ \E outcome \in SequenceOutcomes, readOk \in ReadOutcomes, writeOk \in BOOLEAN :
       SequenceIteration(outcome, readOk, writeOk)
  \/ SequencesReturn

\* one process that loads intervals from a CSV file and predicts them
SpecCsv == InitBatch /\ [][NextCsv]_vars

(***************************************************************************)
(* A second process of the same program, using the same log file.          *)
(***************************************************************************)
\* the first monitor_api_quota(limit) call in the second process: its global
\* is None, so an APIMonitor is built from the log as it is now
PeerMonitorApiQuota(limit, readOk) ==
  /\ pc = "idle"
  /\ peer_monitor = None
  /\ peer_monitor' = APIMonitor(limit, logFile, readOk)
  /\ peerLoadedFrom' = [file |-> logFile, readOk |-> readOk, calls |-> peer_monitor'.calls]
  /\ peerTrace' = <<>>
  /\ UNCHANGED <<nIncrements, lastOp>>
  /\ UNCHANGED monitorVars
  /\ UNCHANGED batchVars

\* a call of increment(count) on the second process's monitor
PeerIncrement(count, writeOk) ==
  /\ pc = "idle"
  /\ peer_monitor # None
  /\ Len(peerTrace) < MaxPeerIncrements
  /\ LET r == increment(peer_monitor, count, logFile, writeOk)
     IN /\ peer_monitor' = r.monitor
        /\ logFile' = r.file
        /\ peerTrace' = Append(peerTrace, [count |-> count, calls |-> r.monitor.calls,
                                           warned |-> r.warned, wrote |-> writeOk,
                                           raised |-> r.raised])
  /\ UNCHANGED <<api_monitor, loadedFrom, trace, nMonitors, nIncrements, lastOp,
                 peerLoadedFrom>>
  /\ UNCHANGED batchVars

NextTwo ==
  \/ \E limit \in Limits, readOk \in ReadOutcomes : FetchMonitor(limit, readOk)
  \/ \E count \in Counts, writeOk \in BOOLEAN : Increment(count, writeOk)
  \/ \E limit \in Limits, readOk \in ReadOutcomes : PeerMonitorApiQuota(limit, readOk)
  \/ \E count \in Counts, writeOk \in BOOLEAN : PeerIncrement(count, writeOk)

\* two processes that each fetch their monitor and increment it, in any order
SpecTwo == InitBatch /\ [][NextTwo]_vars

(***************************************************************************)
(* Properties of the batch runners, checked under SpecBatch.               *)
(***************************************************************************)
InBatch == pc \in {"loop", "returned"}

\* the row echoes the request it was made for
Echoes(row, request) ==
  IF fn = "batch_predict_variants"
  THEN /\ row.chromosome = request.chromosome
       /\ row.position = request.position
       /\ row.reference = request.reference_bases
       /\ row.alternate = request.alternate_bases
  ELSE /\ row.chromosome = request.chromosome
       /\ row.start = request.start
       /\ row.end = request.end

\* every call issued so far on the external model raised / returned
EveryCallRaised == \A k \in 1..Len(issued) : issued[k].outcome.raises
EveryCallReturned == \A k \in 1..Len(issued) : ~issued[k].outcome.raises

\* C1: a batch over a non-empty list returns exactly one row per request, the
\* i-th row echoing the i-th request, whatever succeeded and whatever failed:
\* after every pass of the loop there is one row per request consumed, and the
\* table returned has as many rows as there are requests.
C1_OneRowPerRequestInOrder ==
  /\ InBatch => /\ Len(results) = cursor
                /\ \A i \in 1..Len(results) : Echoes(results[i], requests[i])
  /\ pc = "returned" => Len(results) = Len(requests)

\* a returned table for a list that repeats a request, one call succeeded, one failed
C1_Witness ==
  /\ pc = "returned"
  /\ fn = "batch_predict_variants"
  /\ Len(requests) = 2
  /\ requests[1] = requests[2]
  /\ results[1].success
  /\ ~results[2].success

\* C2: with monitoring enabled, increment() is called exactly once after every
\* attempt whose remote call was issued, whether it returned or raised.
C2_IncrementAfterEveryIssuedCall ==
  (InBatch /\ monitor) =>
    incrementedFor = [k \in 1..Len(issued) |-> issued[k].index]

\* str(e) of the exception raised while request i was handled
RaisedFor(i) ==
  IF \E k \in 1..Len(issued) : issued[k].index = i
  THEN issued[CHOOSE k \in 1..Len(issued) : issued[k].index = i].outcome.message
  ELSE UnexpectedKeyword

\* C3 as stated: if the external call raises on every request, the batch runs
\* to the end and every row has success = false and a non-empty error string.
C3_EveryRowFailedWithNonEmptyError ==
  (InBatch /\ EveryCallRaised) =>
    /\ Len(results) = cursor
    /\ \A i \in 1..Len(results) :
         /\ ~results[i].success
         /\ "error" \in DOMAIN results[i]
         /\ results[i].error # ""

\* C3 as amended: if the external call raises on every request, the batch runs
\* to the end and every row has success = false and an error column holding
\* str(e) of the exception raised for that request, which is the empty string
\* exactly when the exception carries no message.
C3_EveryRowFailedWithStrOfError ==
  (InBatch /\ EveryCallRaised) =>
    /\ Len(results) = cursor
    /\ pc = "returned" => cursor = Len(requests)
    /\ \A i \in 1..Len(results) :
         /\ ~results[i].success
         /\ "error" \in DOMAIN results[i]
         /\ results[i].error = RaisedFor(i)

\* a returned table of two failed rows, one error with a message and one without
C3_Witness ==
  /\ pc = "returned"
  /\ Len(issued) = 2
  /\ EveryCallRaised
  /\ results[1].error # ""
  /\ results[2].error = ""

\* C4: if the external call succeeds on every request, every row has
\* success = true and no row has an error column, with an interval supplied
\* and with the window derived, and for batch_predict_sequences.
C4_EveryRowSucceeded ==
  (pc = "returned" /\ EveryCallReturned) =>
    \A i \in 1..Len(results) : results[i].success /\ "error" \notin DOMAIN results[i]

\* C5: when no interval is supplied, the interval of the k-th external call is
\* the window around the k-th request's own position, on its own chromosome:
\* from max(0, position - 50,000) to position + 50,000.
C5_WindowOfOwnRequest ==
  (fn = "batch_predict_variants" /\ intervalArg = None) =>
    \A k \in 1..Len(issued) :
      /\ issued[k].interval.chromosome = issued[k].request.chromosome
      /\ issued[k].interval.position = max(0, issued[k].request.position - 50000)
      /\ issued[k].interval.end = issued[k].request.position + 50000

(***************************************************************************)
(* Properties of the usage monitor, checked under Spec.                    *)
(***************************************************************************)
HasMonitor == api_monitor # None

RECURSIVE SumCounts(_)
SumCounts(t) == IF t = <<>> THEN 0 ELSE t[Len(t)].count + SumCounts(SubSeq(t, 1, Len(t) - 1))

\* the monitor was built with the log absent or empty, and every increment since
\* then was increment(1)
FreshAndCountedByOne ==
  /\ HasMonitor
  /\ loadedFrom.file \in {NoFile, File(<<>>)}
  /\ \A i \in 1..Len(trace) : trace[i].count = 1

\* C6: from a monitor built with an empty or absent log, N calls of increment(1)
\* give get_usage().calls = N and get_usage().remaining = limit - N, also for
\* N greater than the limit.
C6_FreshMonitorCountsIncrements ==
  (FreshAndCountedByOne /\ lastOp.op = "get_usage") =>
    /\ lastOp.value.calls = Len(trace)
    /\ lastOp.value.remaining = api_monitor.limit - Len(trace)
    /\ lastOp.value.limit = api_monitor.limit

\* more increments on a monitor than its limit, then get_usage()
C6_Witness ==
  /\ FreshAndCountedByOne
  /\ lastOp.op = "get_usage"
  /\ Len(trace) > api_monitor.limit
  /\ lastOp.value.remaining < 0

\* the lines of a log text that contain the marker 'Total calls'
MarkedLines(text) ==
  {i \in 1..Len(readlines(text)) : Contains(TotalCalls, readlines(text)[i])}

\* the last line of the text that contains the marker
LastMarkedLine(text) ==
  readlines(text)[CHOOSE i \in MarkedLines(text) : \A j \in MarkedLines(text) : j <= i]

\* the total a marked line records: the integer after 'Total calls:'
RecordedTotal(line) ==
  IF Len(split(line, TotalCallsColon)) < 2 THEN [ok |-> FALSE, value |-> 0]
  ELSE int(split(line, TotalCallsColon)[2])

\* the current monitor was built from a readable log whose last marked line
\* records a total, and has not been incremented since
BuiltFromLogWithTotal ==
  /\ HasMonitor
  /\ trace = <<>>
  /\ loadedFrom.file.exists
  /\ loadedFrom.readOk
  /\ MarkedLines(loadedFrom.file.text) # {}
  /\ RecordedTotal(LastMarkedLine(loadedFrom.file.text)).ok

\* C7: a monitor built against a log whose last line containing the marker
\* records total K starts with calls = K, also when lines without the marker
\* follow that line.
C7_RestoresLastMarkedTotal ==
  BuiltFromLogWithTotal =>
    api_monitor.calls = RecordedTotal(LastMarkedLine(loadedFrom.file.text)).value

\* calls / limit >= warning_threshold after the i-th increment on the monitor
Crossed(i) ==
  trace[i].calls * api_monitor.warning_threshold.den
    >= api_monitor.warning_threshold.num * api_monitor.limit

\* C8: over the increments made on one monitor, the first increment after which
\* calls / limit >= warning_threshold emits the warning (equality counts), and
\* no increment before it does.
C8_WarningAtFirstCrossing ==
  HasMonitor =>
    \A i \in 1..Len(trace) :
      /\ (Crossed(i) /\ \A j \in 1..(i - 1) : ~Crossed(j)) => trace[i].warned
      /\ (\A j \in 1..i : ~Crossed(j)) => ~trace[i].warned

\* an increment below the threshold, then one that lands exactly on it
C8_Witness ==
  /\ HasMonitor
  /\ Len(trace) >= 2
  /\ ~trace[1].warned
  /\ trace[2].warned
  /\ trace[2].calls * api_monitor.warning_threshold.den
       = api_monitor.warning_threshold.num * api_monitor.limit

\* C9 as stated: the count of the process-wide monitor never decreases, whatever
\* increment, get_usage and monitor_api_quota calls are made.
C9_CountNeverDecreases ==
  [][(HasMonitor /\ api_monitor' # None) => api_monitor'.calls >= api_monitor.calls]_vars

\* C9 as amended: the count of the process-wide monitor never decreases as long
\* as no call replaces the monitor, that is over increment(count) with
\* count >= 0, get_usage() and monitor_api_quota(reset=False).
C9_CountNeverDecreasesOnOneMonitor ==
  [][(HasMonitor /\ api_monitor' # None /\ nMonitors' = nMonitors)
       => api_monitor'.calls >= api_monitor.calls]_vars

\* increments, a fetch with reset=False and get_usage() on one monitor
C9_Witness ==
  /\ HasMonitor
  /\ nMonitors = 1
  /\ Len(trace) >= 2
  /\ lastOp.op = "get_usage"
  /\ lastOp.value.calls > loadedFrom.calls

\* C10: an increment whose log write fails does not raise and still adds its
\* count; the increments after it and get_usage() keep reporting the count
\* restored at construction plus every count added since.
C10_FailedLogWriteKeepsCount ==
  HasMonitor =>
    /\ \A i \in 1..Len(trace) :
         ~trace[i].wrote =>
           /\ ~trace[i].raised
           /\ \A j \in i..Len(trace) :
                trace[j].calls = loadedFrom.calls + SumCounts(SubSeq(trace, 1, j))
    /\ (\E i \in 1..Len(trace) : ~trace[i].wrote) =>
         /\ api_monitor.calls = loadedFrom.calls + SumCounts(trace)
         /\ lastOp.op = "get_usage" => lastOp.value.calls = loadedFrom.calls + SumCounts(trace)

\* a failed write, a later increment, then get_usage()
C10_Witness ==
  /\ HasMonitor
  /\ Len(trace) >= 2
  /\ ~trace[1].wrote
  /\ trace[1].count = 2
  /\ lastOp.op = "get_usage"
  /\ lastOp.value.calls = loadedFrom.calls + SumCounts(trace)

\* the log gives no total to restore: it is missing, cannot be read, is empty, or
\* its last line lacks the marker or has the marker with no integer after it
NothingToRestore(file, readOk) ==
  \/ ~file.exists
  \/ ~readOk
  \/ file.text = <<>>
  \/ LET last_line == readlines(file.text)[Len(readlines(file.text))]
     IN \/ ~Contains(TotalCalls, last_line)
        \/ ~RecordedTotal(last_line).ok

LogLines(file) == IF file.exists THEN readlines(file.text) ELSE <<>>

\* the last of the lines records the total n
LastOfRecords(lines, n) ==
  /\ lines # <<>>
  /\ RecordedTotal(lines[Len(lines)]) = [ok |-> TRUE, value |-> n]

\* the last line of the log records the total n
LastLineRecords(file, n) == LastOfRecords(LogLines(file), n)

\* the increments on the current monitor whose log write succeeded, in order
Wrote(e) == e.wrote
Written == SelectSeq(trace, Wrote)

\* after is before with one line added at the end for each written increment,
\* the k-th added line recording the count after the k-th written increment
OneLineAddedForEach(before, after, written) ==
  /\ Len(after) = Len(before) + Len(written)
  /\ SubSeq(after, 1, Len(before)) = before
  /\ \A k \in 1..Len(written) :
       RecordedTotal(after[Len(before) + k]) = [ok |-> TRUE, value |-> written[k].calls]

\* the log is missing or empty, or its text ends with a newline
Terminated(file) ==
  ~file.exists \/ file.text = <<>> \/ file.text[Len(file.text)] = "\n"

\* since the monitor was built, every increment whose log write succeeded has
\* appended exactly one line, which records the count after that increment, and
\* the lines that were there before are unchanged; the others appended nothing
AppendsOneLine ==
  OneLineAddedForEach(LogLines(loadedFrom.file), LogLines(logFile), Written)

\* C12 as stated: every increment whose log write succeeds appends exactly one
\* line and leaves the earlier lines unchanged, the new last line records the
\* count after the increment, and so, once a monitor has been incremented, the
\* log's last line always records the monitor's current total.
C12_LastLineAlwaysRecordsTotal ==
  HasMonitor =>
    /\ AppendsOneLine
    /\ trace # <<>> => LastLineRecords(logFile, api_monitor.calls)

\* C12 as amended: on a log that is missing, empty or ends with a newline, every
\* increment whose log write succeeds appends exactly one line and leaves the
\* earlier lines unchanged, the new last line records the count after the
\* increment, and so the log's last line records the monitor's current total
\* whenever the latest increment on the monitor was written.
C12_LastLineRecordsTotalAfterWrite ==
  (HasMonitor /\ Terminated(loadedFrom.file)) =>
    /\ AppendsOneLine
    /\ (trace # <<>> /\ trace[Len(trace)].wrote)
         => LastLineRecords(logFile, api_monitor.calls)

\* a log of two lines before, three after two written increments and the first
\* two lines still there; then get_usage() with the last line in step
C12_Witness ==
  /\ HasMonitor
  /\ loadedFrom.file = File(UsageLine(1) \o UsageLine(899998))
  /\ Len(trace) = 2
  /\ ~trace[1].wrote
  /\ trace[2].wrote
  /\ Len(LogLines(logFile)) = 3
  /\ SubSeq(LogLines(logFile), 1, 2) = <<UsageLine(1), UsageLine(899998)>>
  /\ LastLineRecords(logFile, api_monitor.calls)
  /\ api_monitor.calls = loadedFrom.calls + SumCounts(trace)

(***************************************************************************)
(* Properties of the CSV loader, checked under SpecCsv.                    *)
(***************************************************************************)
\* the row's start and end are integers and end <= start
EndNotAfterStart(row) ==
  /\ int(row.start).ok
  /\ int(row.end).ok
  /\ int(row.end).value <= int(row.start).value

\* C13: an interval with end <= start in any row is rejected when the intervals
\* are loaded: load_intervals_from_csv fails instead of returning it, it never
\* reaches batch_predict_sequences and no result row has length <= 0.
C13_EndAfterStartOrRejected ==
  /\ (/\ lastOp.op = "load_intervals_from_csv"
      /\ \E i \in 1..Len(lastOp.rows) : EndNotAfterStart(lastOp.rows[i]))
       => lastOp.raised
  /\ fn = "batch_predict_sequences" =>
       /\ \A i \in 1..Len(requests) : requests[i].end > requests[i].start
       /\ \A i \in 1..Len(results) : results[i].length > 0

(***************************************************************************)
(* Properties of monitor_api_quota, checked under Spec.                    *)
(***************************************************************************)
\* C14: monitor_api_quota(reset=True) resets the counter: the monitor it returns
\* reports calls = 0, whatever was incremented and logged before.
C14_ResetGivesZero ==
  (lastOp.op = "monitor_api_quota" /\ lastOp.reset /\ ~lastOp.raised)
    => api_monitor.calls = 0

(***************************************************************************)
(* Further properties of the batch runners, checked under SpecBatch.       *)
(***************************************************************************)
\* C15: the batch runners invoke the external call exactly once per request, in
\* input order, one at a time: after every pass of the loop the calls made are
\* one for each request consumed, the k-th for the k-th request, none repeated,
\* and the k-th was made when the rows of the k - 1 requests before it were
\* recorded.
C15_OneCallPerRequestInOrder ==
  InBatch =>
    /\ Len(issued) = cursor
    /\ \A k \in 1..Len(issued) :
         /\ issued[k].index = k
         /\ issued[k].request = requests[k]
         /\ issued[k].rows = k - 1

(***************************************************************************)
(* Properties of two processes sharing the log, checked under SpecTwo.     *)
(***************************************************************************)
HasPeer == peer_monitor # None

\* both processes built their monitor from the same log, and both read it
LoadedTheSameLog ==
  /\ HasMonitor
  /\ HasPeer
  /\ loadedFrom.file = peerLoadedFrom.file
  /\ loadedFrom.readOk
  /\ peerLoadedFrom.readOk

\* the totals the lines of the log record, 0 for a line that records none
LineTotals(file) ==
  [k \in 1..Len(LogLines(file)) |-> RecordedTotal(LogLines(file)[k]).value]

\* the total the last line of the log records, 0 when there is none
LastTotal(file) ==
  IF LogLines(file) = <<>> THEN 0 ELSE LineTotals(file)[Len(LogLines(file))]

\* C16: the log is shared without coordination. Each process counts from the
\* total it restored and adds its own increments only; what the other process
\* wrote is never read back. So once two processes that loaded the same log
\* have both incremented, every total in the log is the count of one of them
\* alone: the last line (the count a later monitor restores) is smaller than
\* the initial total plus the increments of both.
C16_LogRecordsOneProcessAlone ==
  LoadedTheSameLog =>
    /\ api_monitor.calls = loadedFrom.calls + SumCounts(trace)
    /\ peer_monitor.calls = peerLoadedFrom.calls + SumCounts(peerTrace)
    /\ (trace # <<>> /\ peerTrace # <<>>) =>
         /\ LastTotal(logFile) < loadedFrom.calls + SumCounts(trace) + SumCounts(peerTrace)
         /\ load_usage(logFile, TRUE).calls = LastTotal(logFile)

\* both processes restored 2; the first process wrote 3 and 4, then the second
\* wrote 3: the totals go down from 4 to 3, and the last line records 3 after
\* three increments on an initial total of 2
C16_Witness ==
  /\ LoadedTheSameLog
  /\ loadedFrom.file = File(UsageLine(2))
  /\ loadedFrom.calls = 2
  /\ Len(trace) = 2
  /\ Len(peerTrace) = 1
  /\ \A i \in 1..2 : trace[i].count = 1 /\ trace[i].wrote
  /\ peerTrace[1].count = 1
  /\ peerTrace[1].wrote
  /\ LineTotals(logFile) = <<2, 3, 4, 3>>
  /\ LastTotal(logFile) < 2 + 3

(***************************************************************************)
(* Properties of the process-wide monitor during batches, checked under    *)
(* SpecBatch.                                                              *)
(***************************************************************************)
\* the step is a call of monitor_api_quota(limit, reset=False) by the user: the
\* only step of SpecBatch that starts and ends outside a batch
UserFetch == pc = "idle" /\ pc' = "idle"

\* the step is a pass of a batch runner's loop that called
\* monitor_api_quota().increment()
BatchIncrement == Len(incrementedFor') = Len(incrementedFor) + 1

\* C17: once the process-wide monitor exists, a monitor_api_quota call with
\* reset=False builds no instance, does not read the log again, and returns the
\* monitor with its count and limit as they were, whatever limit is passed: a
\* fetch by the user leaves the monitor as it is, and the fetch inside a batch
\* runner's pass is followed by an increment of one on that same counter.
C17_OneMonitorPerProcess ==
  [][HasMonitor =>
       /\ nMonitors' = nMonitors
       /\ loadedFrom' = loadedFrom
       /\ api_monitor'.limit = api_monitor.limit
       /\ UserFetch => api_monitor' = api_monitor
       /\ api_monitor'.calls = api_monitor.calls + (IF BatchIncrement THEN 1 ELSE 0)]_vars

\* the user fetched the monitor with limit=SmallLimit; a batch of two requests then
\* called monitor_api_quota() twice, with the default limit: the limit is still
\* SmallLimit and both increments are on the count restored from the log
C17_Witness ==
  /\ pc = "returned"
  /\ HasMonitor
  /\ nMonitors = 1
  /\ loadedFrom.file = File(UsageLine(2))
  /\ api_monitor.limit = SmallLimit
  /\ SmallLimit # DefaultLimit
  /\ Len(incrementedFor) = 2
  /\ api_monitor.calls = 2 + 2

\* C18: called with an empty request list, batch_predict_variants and
\* batch_predict_sequences return an empty result table without raising, and
\* make no external call and no monitor increment.
C18_EmptyListReturnsEmptyTable ==
  (requests = <<>> /\ pc \in {"returned", "raised"}) =>
    /\ pc = "returned"
    /\ results = <<>>
    /\ issued = <<>>
    /\ incrementedFor = <<>>

====
